---- MODULE Spec2Model ----
(***************************************************************************)
(* Model of the derivative pricing engine (AdvancedDerivativesPricing) and *)
(* of the payoff sweep that drives it (PlotWidget.plot_payoff).            *)
(*                                                                         *)
(* Floating point numbers are modelled as fixed-point integers with four   *)
(* decimals (Scale units per 1.0).  The transcendental functions the code  *)
(* takes from numpy/scipy (log, sqrt, exp, norm.cdf) are computed by       *)
(* series on that grid, so a price of the model agrees with the float      *)
(* price to about two decimals.                                            *)
(***************************************************************************)
EXTENDS Integers, Sequences, FiniteSets, TLC

(***************************************************************************)
(* Fixed-point arithmetic                                                  *)
(***************************************************************************)
Scale == 100 * 100

\* the one element of a singleton set; it binds a computed number so that
\* each is computed once
The(S) == CHOOSE x \in S : TRUE

Abs(a) == IF a < 0 THEN -a ELSE a

\* floor(a*b/Scale) without leaving 32 bits; |b| must stay below 2*10^5
FxMulBy(a, b) == (a \div Scale) * b + ((a % Scale) * b) \div Scale

FxMul(a, b) ==
    The({IF Abs(y) <= Abs(x) THEN FxMulBy(x, y) ELSE FxMulBy(y, x) :
            x \in {a}, y \in {b}})

\* floor(a*Scale/b) by long division in base 100; b > 0
FxDivPos(a, b) ==
    The({q0 * Scale + q1 * 100 + ((r1 * 100) \div b) :
            q0 \in {a \div b},
            q1 \in {((a % b) * 100) \div b},
            r1 \in {((a % b) * 100) % b}})

FxDiv(a, b) ==
    The({IF y > 0 THEN FxDivPos(x, y) ELSE FxDivPos(-x, -y) : x \in {a}, y \in {b}})

\* floor(a*b/Scale) where |a*b| is below 2^31
FxMulNear(a, b) == (a * b) \div Scale

RECURSIVE ISqrt(_, _)
\* floor(sqrt(n)) by Newton's iteration from s above it; n > 0
ISqrt(n, s) ==
    The({IF t >= s THEN s ELSE ISqrt(n, t) : t \in {(s + n \div s) \div 2}})

\* np.sqrt on the grid, 0 <= x < 2*10^5
FxSqrt(x) == The({IF v = 0 THEN 0 ELSE ISqrt(v * Scale, 46340) : v \in {x}})

\* 2*(z + z^3/3 + z^5/5 + z^7/7), |z| <= 0.2
LnSeries(z) ==
    The({2 * z + (2 * z3) \div 3 + (2 * FxMulNear(z3, z2)) \div 5
            + (2 * FxMulNear(FxMulNear(z3, z2), z2)) \div 7 :
            z2 \in {FxMulNear(z, z)}, z3 \in {FxMulNear(z, FxMulNear(z, z))}})

RECURSIVE LnOf(_)
LnOf(x) ==
    IF x > 15000 THEN LnOf(x \div 2) + 6931
    ELSE IF x < 7500 THEN LnOf(2 * x) - 6931
    ELSE LnSeries(((x - Scale) * Scale) \div (x + Scale))

\* np.log on the grid, x > 0: halve or double into [0.75, 1.5], then the
\* series in z = (x-1)/(x+1)
FxLn(x) == The({LnOf(v) : v \in {x}})

\* 1 + x + x^2/2 + ... + x^6/720, |x| <= 0.5
ExpSeries(x) ==
    The({Scale + x + x2 \div 2 + x3 \div 6 + FxMulNear(x3, x) \div 24
            + FxMulNear(x3, x2) \div 120 + FxMulNear(x3, x3) \div 720 :
            x2 \in {FxMulNear(x, x)}, x3 \in {FxMulNear(FxMulNear(x, x), x)}})

RECURSIVE ExpOf(_)
ExpOf(x) ==
    IF x < -12 * Scale THEN 0
    ELSE IF Abs(x) > 5000
    THEN The({IF x < 0 THEN FxMulNear(FxMulNear(h, h), Scale + (x - 2 * (x \div 2)))
              ELSE FxMul(FxMul(h, h), Scale + (x - 2 * (x \div 2))) :
              h \in {ExpOf(x \div 2)}})
    ELSE ExpSeries(x)

\* np.exp on the grid: Taylor series on |x| <= 0.5, squared up
FxExp(x) == The({ExpOf(v) : v \in {x}})

\* base ** ex for base > 0
FxPow(base, ex) == FxExp(FxMul(ex, FxLn(base)))

\* the polynomial of Abramowitz-Stegun 26.2.17 in t = 1/(1 + 0.2316 x)
CdfPoly(t) ==
    FxMulNear(t, 3194 + FxMulNear(t, -3566 + FxMulNear(t, 17815 +
        FxMulNear(t, -18213 + FxMulNear(t, 13303)))))

CdfPos(x) ==
    IF x > 6 * Scale THEN Scale
    ELSE The({Scale - FxMulNear(pdf, CdfPoly(t)) :
                t \in {(Scale * Scale) \div (Scale + FxMulNear(2316, x))},
                pdf \in {FxMulNear(3989, FxExp(-(FxMul(x, x) \div 2)))}})

\* scipy.stats.norm.cdf on the grid
FxCdf(x) == The({IF v >= 0 THEN CdfPos(v) ELSE Scale - CdfPos(-v) : v \in {x}})


(***************************************************************************)
(* Values: a Python float or None.  A float is m/Scale + e*u with u =      *)
(* eps/365, the smallest step calculate_greeks takes; e is far below the   *)
(* grid's resolution, so it decides comparisons and nothing else.          *)
(***************************************************************************)
None == [tag |-> "None", m |-> 0, e |-> 0]
NaN == [tag |-> "NaN", m |-> 0, e |-> 0]
Num(m) == [tag |-> "num", m |-> m, e |-> 0]

IsNone(v) == v.tag = "None"
IsNum(v) == v.tag = "num"
IsZero(v) == IsNum(v) /\ v.m = 0 /\ v.e = 0
IsPos(v) == IsNum(v) /\ v.m > 0

\* a <= b on floats: False when either is NaN
Le(a, b) == IsNum(a) /\ IsNum(b) /\ (a.m < b.m \/ (a.m = b.m /\ a.e <= b.e))
Ge(a, b) == Le(b, a)

\* the outcome of a call: a returned value or a raised exception
Return(v) == [kind |-> "return", exc |-> "", err |-> "", val |-> v]
Raise(exc, err) == [kind |-> "raise", exc |-> exc, err |-> err, val |-> None]

OptionTypes == {"call", "put"}
BarrierTypes == {"up-and-in", "up-and-out", "down-and-in", "down-and-out"}

\* __init__: the five market parameters
Engine(S, K, T, r, sigma) == [S |-> S, K |-> K, T |-> T, r |-> r, sigma |-> sigma]

(***************************************************************************)
(* price_barrier_option                                                    *)
(***************************************************************************)
\* the check of line 81 without the barrier in its tuple
MissingEngineParam(self, barrier) ==
    \E v \in {self.S, self.K, self.T, self.r, self.sigma} : IsNone(v)

\* None in (self.S, self.K, self.T, self.r, self.sigma, barrier)
MissingBarrierParam(self, barrier) ==
    \E v \in {self.S, self.K, self.T, self.r, self.sigma, barrier} : IsNone(v)

\* the float divisions of lines 45 and 89-92 whose divisor is 0.0:
\* S / K, (..) / sigma**2, barrier**2 / (S * K), S / barrier, barrier / S
DividesByZero(self, barrier) ==
    \E v \in {self.K, self.sigma, self.S, barrier} : IsZero(v)

\* the inputs on which every derived quantity is a finite float the grid
\* can hold; on any other input of the model the result is not computed
\* and stands as NaN (a true NaN, or a float out of the grid's reach such
\* as a price at a maturity of eps)
Computable(self, barrier) ==
    /\ IsPos(self.S) /\ IsPos(self.K) /\ IsPos(self.T) /\ IsPos(self.sigma)
    /\ IsNum(self.r) /\ IsPos(barrier)

\* _d1
d1(S, K, T, r, sigma) ==
    FxDiv(FxLn(FxDiv(S, K)) + FxMul(r + FxMul(sigma, sigma) \div 2, T),
          FxMul(sigma, FxSqrt(T)))

\* _d2
d2(d, sigma, T) == d - FxMul(sigma, FxSqrt(T))

\* lines 85-92: d1, d2, lambda_, y and x1 (y1 is never read), with
\* sq = sigma * sqrt(T) and s2 = sigma**2; log(barrier**2 / (S*K)) is taken
\* of (barrier/S) * (barrier/K), which stays inside 32 bits
Derived(self, barrier) ==
    The({ [d1 |-> d, d2 |-> d2(d, self.sigma.m, self.T.m), lambda_ |-> lam,
           y  |-> FxDiv(FxLn(FxMul(FxDiv(barrier.m, self.S.m),
                                   FxDiv(barrier.m, self.K.m))), sq)
                    + FxMul(lam, sq),
           x1 |-> FxDiv(FxLn(FxDiv(self.S.m, barrier.m)), sq) + FxMul(lam, sq)] :
          d \in {d1(self.S.m, self.K.m, self.T.m, self.r.m, self.sigma.m)},
          sq \in {FxMul(self.sigma.m, FxSqrt(self.T.m))},
          lam \in {FxDiv(self.r.m - FxMul(self.sigma.m, self.sigma.m) \div 2,
                         FxMul(self.sigma.m, self.sigma.m))} })

\* the derived quantities when an input is NaN
NaNDerived == [d1 |-> 0, d2 |-> 0, lambda_ |-> 0, y |-> 0, x1 |-> 0]

\* K * exp(-r*T)
discK(self) == FxMul(self.K.m, FxExp(-FxMul(self.r.m, self.T.m)))

\* S*N(d1) - K*exp(-rT)*N(d2)
VanillaCall(self, q) ==
    FxMul(self.S.m, FxCdf(q.d1)) - FxMul(discK(self), FxCdf(q.d2))

\* K*exp(-rT)*N(-d2) - S*N(-d1)
VanillaPut(self, q) ==
    FxMul(discK(self), FxCdf(-q.d2)) - FxMul(self.S.m, FxCdf(-q.d1))

\* S * (barrier/S)**(2*lambda)
Reflect(self, barrier, q) ==
    FxMul(self.S.m, FxPow(FxDiv(barrier.m, self.S.m), 2 * q.lambda_))

\* self.S < barrier: the tie S = barrier left to the active region
KnockedDownStrict(self, barrier) == Le(self.S, barrier) /\ self.S # barrier

\* self.S <= barrier (lines 97, 107, 116, 126)
KnockedDown(self, barrier) == Le(self.S, barrier)

\* self.S >= barrier (lines 102, 111, 121, 130)
KnockedUp(self, barrier) == Ge(self.S, barrier)

\* a float expression of the method: its value on the grid, NaN otherwise
Float(self, barrier, x) == IF Computable(self, barrier) THEN Num(x) ELSE NaN

\* lines 95-113
CallBranch(self, barrier_type, barrier, q) ==
    IF barrier_type = "down-and-out"
    THEN IF KnockedDown(self, barrier) THEN Return(Num(0))
         ELSE Return(Float(self, barrier,
                VanillaCall(self, q)
                  - FxMul(Reflect(self, barrier, q), FxCdf(-q.x1) - FxCdf(-q.y))))
    ELSE IF barrier_type = "up-and-out"
    THEN IF KnockedUp(self, barrier) THEN Return(Num(0))
         ELSE Return(Float(self, barrier,
                VanillaCall(self, q)
                  - FxMul(Reflect(self, barrier, q), FxCdf(q.y) - FxCdf(q.x1))))
    ELSE IF barrier_type = "down-and-in"
    THEN IF KnockedDown(self, barrier)
         THEN Return(Float(self, barrier, VanillaCall(self, q)))
         ELSE Return(Float(self, barrier,
                FxMul(Reflect(self, barrier, q), FxCdf(-q.x1))))
    ELSE IF barrier_type = "up-and-in"
    THEN IF KnockedUp(self, barrier)
         THEN Return(Float(self, barrier, VanillaCall(self, q)))
         ELSE Return(Float(self, barrier,
                FxMul(Reflect(self, barrier, q), FxCdf(q.y))))
    \* no branch taken: the method falls off its end
    ELSE Return(None)

\* lines 114-132
PutBranch(self, barrier_type, barrier, q) ==
    IF barrier_type = "down-and-out"
    THEN IF KnockedDown(self, barrier) THEN Return(Num(0))
         ELSE Return(Float(self, barrier,
                VanillaPut(self, q)
                  + FxMul(Reflect(self, barrier, q), FxCdf(-q.y) - FxCdf(-q.x1))))
    ELSE IF barrier_type = "up-and-out"
    THEN IF KnockedUp(self, barrier) THEN Return(Num(0))
         ELSE Return(Float(self, barrier,
                VanillaPut(self, q)
                  + FxMul(Reflect(self, barrier, q), FxCdf(q.x1) - FxCdf(q.y))))
    ELSE IF barrier_type = "down-and-in"
    THEN IF KnockedDown(self, barrier)
         THEN Return(Float(self, barrier, VanillaPut(self, q)))
         ELSE Return(Float(self, barrier,
                FxMul(Reflect(self, barrier, q), FxCdf(-q.y))))
    ELSE IF barrier_type = "up-and-in"
    THEN IF KnockedUp(self, barrier)
         THEN Return(Float(self, barrier, VanillaPut(self, q)))
         ELSE Return(Float(self, barrier,
                FxMul(Reflect(self, barrier, q), FxCdf(q.x1))))
    \* no branch taken: the method falls off its end
    ELSE Return(None)

\* the dispatch without the else of lines 133-134: an unknown option type
\* falls off the end like an unknown barrier type
DispatchNoElse(self, option_type, barrier_type, barrier, q) ==
    IF option_type = "call" THEN CallBranch(self, barrier_type, barrier, q)
    ELSE IF option_type = "put" THEN PutBranch(self, barrier_type, barrier, q)
    ELSE Return(None)

\* lines 95-134: the dispatch on the option type
Dispatch(self, option_type, barrier_type, barrier, q) ==
    IF option_type = "call" THEN CallBranch(self, barrier_type, barrier, q)
    ELSE IF option_type = "put" THEN PutBranch(self, barrier_type, barrier, q)
    ELSE Raise("ValueError", "InvalidArgument")

price_barrier_option(self, option_type, barrier_type, barrier) ==
    IF MissingBarrierParam(self, barrier)
    THEN Raise("ValueError", "MissingParameter")
    ELSE IF DividesByZero(self, barrier)
    THEN Raise("ZeroDivisionError", "")
    ELSE The({ Dispatch(self, option_type, barrier_type, barrier, q) :
                q \in {IF Computable(self, barrier) THEN Derived(self, barrier)
                       ELSE NaNDerived} })

(***************************************************************************)
(* calculate_greeks                                                        *)
(***************************************************************************)
\* eps = 1e-5 counted in units of eps/365 (line 177 steps T by eps/365)
EpsUnits == 365

\* v + k*(eps/365); NaN stays NaN
Shift(v, k) == IF IsNum(v) THEN [v EXCEPT !.e = @ + k] ELSE v

Eps == [tag |-> "num", m |-> 0, e |-> EpsUnits]

\* max(a, b) left out: the first argument as it is
PyFirst(a, b) == a

\* Python's max(a, b): b when b > a, else a
PyMax(a, b) == IF Le(a, b) /\ a # b THEN b ELSE a

\* the five engines with the down-shift of the spot built before the up-shift
PerturbedDownFirst(self) ==
    << Engine(Shift(self.S, -EpsUnits), self.K, self.T, self.r, self.sigma),
       Engine(Shift(self.S, EpsUnits), self.K, self.T, self.r, self.sigma),
       Engine(self.S, self.K, self.T, self.r, Shift(self.sigma, EpsUnits)),
       Engine(self.S, self.K, PyMax(Shift(self.T, -1), Eps), self.r, self.sigma),
       Engine(self.S, self.K, self.T, Shift(self.r, EpsUnits), self.sigma) >>

\* the five engines lines 163-183 construct, in the order they are built
Perturbed(self) ==
    << Engine(Shift(self.S, EpsUnits), self.K, self.T, self.r, self.sigma),
       Engine(Shift(self.S, -EpsUnits), self.K, self.T, self.r, self.sigma),
       Engine(self.S, self.K, self.T, self.r, Shift(self.sigma, EpsUnits)),
       Engine(self.S, self.K, PyMax(Shift(self.T, -1), Eps), self.r, self.sigma),
       Engine(self.S, self.K, self.T, Shift(self.r, EpsUnits), self.sigma) >>

\* a finite difference: (sum of plus - sum of minus) / den, NaN when a
\* price in it is NaN
Quotient(plus, minus, den) ==
    IF \A i \in 1..Len(plus \o minus) : IsNum((plus \o minus)[i].val)
    THEN [tag |-> "num", plus |-> plus, minus |-> minus, den |-> den]
    ELSE [tag |-> "NaN", plus |-> << >>, minus |-> << >>, den |-> den]

\* lines 164-192: the five quotients of the base price p0 and the prices
\* ps[1..5] of the perturbed engines
GreeksDict(p0, ps) ==
    [Delta |-> Quotient(<<ps[1]>>, <<p0>>, "eps"),
     Gamma |-> Quotient(<<ps[1], ps[2]>>, <<p0, p0>>, "eps**2"),
     Vega  |-> Quotient(<<ps[3]>>, <<p0>>, "eps"),
     Theta |-> Quotient(<<ps[4]>>, <<p0>>, "eps/365"),
     Rho   |-> Quotient(<<ps[5]>>, <<p0>>, "eps")]

\* the up-shift of line 162 written onto self instead of a new engine
SelfAfterGreeksInPlace(self) ==
    IF \E v \in {self.S, self.K, self.T, self.r, self.sigma} : IsNone(v)
    THEN self
    ELSE [self EXCEPT !.S = Shift(@, EpsUnits)]

\* lines 158-192 assign no attribute of self: every perturbed pricing runs
\* on an engine of its own
SelfAfterGreeks(self) == self

\* the first perturbed pricing that raises, 6 when none does
FirstRaise(ps) ==
    IF \E i \in 1..5 : ps[i].kind = "raise"
    THEN CHOOSE i \in 1..5 :
            /\ ps[i].kind = "raise"
            /\ \A j \in 1..(i - 1) : ps[j].kind = "return"
    ELSE 6

\* lines 162-192, given the base price, the perturbed engines and their
\* prices: the first exception on the way, else the dict
GreeksFrom(price, es, ps, bad) ==
    IF bad = 1 THEN [out |-> ps[1], built |-> SubSeq(es, 1, 1)]
    \* price_up - price on None
    ELSE IF IsNone(price.val) \/ IsNone(ps[1].val)
    THEN [out |-> Raise("TypeError", ""), built |-> SubSeq(es, 1, 1)]
    ELSE IF bad <= 5 THEN [out |-> ps[bad], built |-> SubSeq(es, 1, bad)]
    ELSE [out |-> Return(GreeksDict(price, ps)), built |-> es]

\* the result of calculate_greeks and the engines it built on the way
calculate_greeks(self, option_type, barrier_type, barrier) ==
    IF MissingBarrierParam(self, barrier)
    THEN [out |-> Raise("ValueError", "MissingParameter"), built |-> << >>]
    ELSE The({
        IF price.kind = "raise" THEN [out |-> price, built |-> << >>]
        ELSE The({GreeksFrom(price, es, ps, FirstRaise(ps)) :
                    ps \in {[i \in 1..5 |->
                        The({price_barrier_option(e, option_type, barrier_type, barrier) :
                                e \in {es[i]}})]}}) :
        price \in {price_barrier_option(self, option_type, barrier_type, barrier)},
        es \in {Perturbed(self)}})

\* lines 155-183: nothing is priced when a parameter is None; otherwise self
\* is priced first (line 159), then each perturbed engine as it is built
GreeksPriced(self, barrier, built) ==
    IF MissingBarrierParam(self, barrier) THEN << >> ELSE <<self>> \o built

(***************************************************************************)
(* price_futures, price_cfd                                                *)
(***************************************************************************)
\* an argument the caller did not pass
Unset == [tag |-> "unset", m |-> 0, e |-> 0]

\* storage_cost with a default of 0.01 in the signature of line 194
StorageCostOr1(arg) == IF arg = Unset THEN Num(100) ELSE arg

\* storage_cost=0 in the signature of line 194
StorageCostOr0(arg) == IF arg = Unset THEN Num(0) ELSE arg

\* convenience_yield=0 in the signature of line 194
ConvenienceYieldOr0(arg) == IF arg = Unset THEN Num(0) ELSE arg

price_futures(self, storage_cost, convenience_yield) ==
    IF \E v \in {self.S, self.T, self.r} : IsNone(v)
    THEN Raise("ValueError", "MissingParameter")
    ELSE LET sc == StorageCostOr0(storage_cost)
             cy == ConvenienceYieldOr0(convenience_yield)
         IN  IF \A v \in {self.S, self.T, self.r, sc, cy} : IsNum(v)
             THEN LET net_cost == sc.m - cy.m
                  IN  Return(Num(FxMul(self.S.m,
                                FxExp(FxMul(self.r.m + net_cost, self.T.m)))))
             ELSE Return(NaN)

\* holding_period / 365
Days365 == 365

\* lines 239-242 with a short position costing the financing twice over
CfdLegShortEarns(position, daily_price_change, financing_cost) ==
    IF position = "long" THEN daily_price_change - financing_cost
    ELSE -daily_price_change + financing_cost

\* lines 239-242: the result for a recognised position
CfdLeg(position, daily_price_change, financing_cost) ==
    IF position = "long" THEN daily_price_change - financing_cost
    ELSE -daily_price_change - financing_cost

\* S * financing_rate * holding_period / 365
FinancingCost(S, financing_rate, holding_period) ==
    FxMul(FxMul(S, financing_rate), holding_period) \div Days365

price_cfd(self, position, financing_rate, holding_period) ==
    IF \E v \in {self.S, self.r} : IsNone(v)
    THEN Raise("ValueError", "MissingParameter")
    ELSE IF position \notin {"long", "short"}
    THEN Raise("ValueError", "InvalidArgument")
    ELSE IF \E v \in {self.S, self.r, financing_rate, holding_period} : ~IsNum(v)
    THEN Return(NaN)
    ELSE Return(Num(CfdLeg(position,
            FxMul(self.S.m,
                  FxExp(FxMul(self.r.m, holding_period.m \div Days365)) - Scale),
            FinancingCost(self.S.m, financing_rate.m, holding_period.m))))

(***************************************************************************)
(* The engine under an arbitrary sequence of calls                         *)
(***************************************************************************)
VARIABLES
    eng,      \* the engine instance: self.S, self.K, self.T, self.r, self.sigma
    eng0,     \* the parameters it was constructed with
    call,     \* the last call made on it
    out,      \* what that call returned or raised
    built,    \* the engines that call constructed
    priced,   \* the engines calculate_greeks priced, in the order it priced them
    req,      \* the arguments of a quote: option type, barrier, CFD terms
    book,     \* the quotes taken on eng for req, by barrier type and position
    requests, \* the window: the inputs of each Calculate that went through
    pricers,  \* the pricer of each of them, as it is now
    timers,   \* the requests whose payoff sweep is still to run
    panel,    \* what the results panel shows
    dialog,   \* the message box the last Calculate raised, if any
    curve,    \* the payoff curve on the canvas
    curveOf,  \* the request the curve was drawn for
    clicks    \* how many times Calculate was clicked

engineVars == <<eng, eng0, call, out, built, priced>>
quoteVars == <<req, book>>
windowVars == <<requests, pricers, timers, panel, dialog, curve, curveOf, clicks>>
vars == <<engineVars, quoteVars, windowVars>>

\* a window on which Calculate was never clicked
WindowIdle ==
    /\ requests = << >>
    /\ pricers = << >>
    /\ timers = {}
    /\ panel = << >>
    /\ dialog = "none"
    /\ curve = << >>
    /\ curveOf = 0
    /\ clicks = 0

\* how many spot and barrier levels above the lowest the grid holds
SpotSteps == 1
BarrierSteps == 1

Level(i) == Num((90 + 10 * i) * Scale)

SpotGrid == {None, NaN, Num(0)} \cup {Level(i) : i \in 0..SpotSteps}
StrikeGrid == {None, Num(100 * Scale)}
MaturityGrid == {None, Num(Scale)}
RateGrid == {None, Num(500)}
VolGrid == {None, Num(0), Num(2000)}
BarrierGrid == {None, NaN, Num(0)} \cup {Level(i) : i \in 0..BarrierSteps}

OptionArgs == OptionTypes \cup {"straddle"}
BarrierArgs == BarrierTypes \cup {"sideways"}
PositionArgs == {"long", "short", "flat"}
CarryArgs == {<<Unset, Unset>>, <<Num(0), Num(0)>>, <<Num(200), Num(100)>>}

Pending == [kind |-> "pending", exc |-> "", err |-> "", val |-> None]
BookKeys == BarrierTypes \cup {"long", "short"}
NoBook == [k \in BookKeys |-> Pending]
NoRequest ==
    [option_type |-> "", barrier |-> None, financing_rate |-> None,
     holding_period |-> None]

NoCall ==
    [op |-> "none", option_type |-> "", barrier_type |-> "", barrier |-> None,
     storage_cost |-> Unset, convenience_yield |-> Unset,
     position |-> "", financing_rate |-> None, holding_period |-> None]

Init ==
    /\ \E S \in SpotGrid, K \in StrikeGrid, T \in MaturityGrid,
          r \in RateGrid, sigma \in VolGrid :
            eng = Engine(S, K, T, r, sigma)
    /\ eng0 = eng
    /\ call = NoCall
    /\ out = Return(None)
    /\ built = << >>
    /\ priced = << >>
    /\ req = NoRequest
    /\ book = NoBook
    /\ WindowIdle

PriceBarrierOption ==
    \E ot \in OptionArgs, bt \in BarrierArgs, H \in BarrierGrid :
        /\ call' = [NoCall EXCEPT !.op = "price_barrier_option",
                        !.option_type = ot, !.barrier_type = bt, !.barrier = H]
        /\ out' = price_barrier_option(eng, ot, bt, H)
        /\ built' = << >>
        /\ priced' = << >>
        /\ UNCHANGED <<eng, eng0, quoteVars, windowVars>>

CalculateGreeks ==
    \E ot \in OptionArgs, bt \in BarrierArgs, H \in BarrierGrid :
        LET g == calculate_greeks(eng, ot, bt, H)
        IN  /\ call' = [NoCall EXCEPT !.op = "calculate_greeks",
                            !.option_type = ot, !.barrier_type = bt, !.barrier = H]
            /\ out' = g.out
            /\ built' = g.built
            /\ priced' = GreeksPriced(eng, H, g.built)
            /\ eng' = SelfAfterGreeks(eng)
            /\ UNCHANGED <<eng0, quoteVars, windowVars>>

PriceFutures ==
    \E a \in CarryArgs :
        /\ call' = [NoCall EXCEPT !.op = "price_futures",
                        !.storage_cost = a[1], !.convenience_yield = a[2]]
        /\ out' = price_futures(eng, a[1], a[2])
        /\ built' = << >>
        /\ priced' = << >>
        /\ UNCHANGED <<eng, eng0, quoteVars, windowVars>>

PriceCfd ==
    \E pos \in PositionArgs :
        /\ call' = [NoCall EXCEPT !.op = "price_cfd", !.position = pos,
                        !.financing_rate = Num(100), !.holding_period = Num(30 * Scale)]
        /\ out' = price_cfd(eng, pos, Num(100), Num(30 * Scale))
        /\ built' = << >>
        /\ priced' = << >>
        /\ UNCHANGED <<eng, eng0, quoteVars, windowVars>>

Next == PriceBarrierOption \/ CalculateGreeks \/ PriceFutures \/ PriceCfd

Spec == Init /\ [][Next]_vars

(***************************************************************************)
(* calculate_greeks on engines whose spot or maturity is within eps of 0   *)
(***************************************************************************)
\* how many steps of eps/365 above eps the maturities run
MaturitySteps == 2

\* k * (eps/365)
Tiny(k) == [tag |-> "num", m |-> 0, e |-> k]

\* S = eps and S = 100
GreekSpots == {Eps, Level(1)}

\* T = NaN, T = -1, T = 0, T just below eps, T = eps, T just above eps, T = 1
GreekMaturities ==
    {NaN, Num(-Scale), Num(0), Num(Scale)}
        \cup {Tiny(k) : k \in (EpsUnits - 1)..(EpsUnits + MaturitySteps)}

GreekBarrierArgs == {"up-and-out", "down-and-in", "sideways"}
GreekBarriers == {Level(0), Level(2)}

GreeksInit ==
    /\ \E S \in GreekSpots, T \in GreekMaturities :
            eng = Engine(S, Num(100 * Scale), T, Num(500), Num(2000))
    /\ eng0 = eng
    /\ call = NoCall
    /\ out = Return(None)
    /\ built = << >>
    /\ priced = << >>
    /\ req = NoRequest
    /\ book = NoBook
    /\ WindowIdle

GreeksCall ==
    \E ot \in OptionArgs, bt \in GreekBarrierArgs, H \in GreekBarriers :
        \E g \in {calculate_greeks(eng, ot, bt, H)} :
            /\ call' = [NoCall EXCEPT !.op = "calculate_greeks",
                            !.option_type = ot, !.barrier_type = bt, !.barrier = H]
            /\ out' = g.out
            /\ built' = g.built
            /\ priced' = GreeksPriced(eng, H, g.built)
            /\ eng' = SelfAfterGreeks(eng)
            /\ UNCHANGED <<eng0, quoteVars, windowVars>>

GreeksNext == GreeksCall

GreeksSpec == GreeksInit /\ [][GreeksNext]_vars

(***************************************************************************)
(* Quotes: one engine with valid market parameters, priced for every       *)
(* barrier type at one barrier level and for both CFD positions            *)
(***************************************************************************)
\* how many levels above the lowest spot and barrier run over
QuoteSteps == 3

QuoteLevels == {Level(i) : i \in 0..QuoteSteps}
QuoteStrikes == {Level(1), Level(2)}
QuoteMaturities == {Num(Scale), Num(Scale \div 2)}
QuoteVols == {Num(2000), Num(3000)}
QuoteRates == {Num(500)}
QuoteFinancing == {Num(100)}
QuoteHolding == {Num(30 * Scale)}

QuoteInit ==
    /\ \E S \in QuoteLevels, K \in QuoteStrikes, T \in QuoteMaturities,
          r \in QuoteRates, sigma \in QuoteVols :
            eng = Engine(S, K, T, r, sigma)
    /\ eng0 = eng
    /\ \E ot \in OptionTypes, H \in QuoteLevels,
          fr \in QuoteFinancing, hp \in QuoteHolding :
            req = [option_type |-> ot, barrier |-> H, financing_rate |-> fr,
                   holding_period |-> hp]
    /\ book = NoBook
    /\ call = NoCall
    /\ out = Return(None)
    /\ built = << >>
    /\ priced = << >>
    /\ WindowIdle

QuoteBarrier ==
    \E bt \in BarrierTypes :
        /\ book[bt] = Pending
        /\ book' = [book EXCEPT ![bt] =
                        price_barrier_option(eng, req.option_type, bt, req.barrier)]
        /\ UNCHANGED <<engineVars, req, windowVars>>

QuoteCfd ==
    \E pos \in {"long", "short"} :
        /\ book[pos] = Pending
        /\ book' = [book EXCEPT ![pos] =
                        price_cfd(eng, pos, req.financing_rate, req.holding_period)]
        /\ UNCHANGED <<engineVars, req, windowVars>>

QuoteNext == QuoteBarrier \/ QuoteCfd

QuoteSpec == QuoteInit /\ [][QuoteNext]_vars
(***************************************************************************)
(* The window: Calculate (MainWindow.calculate_and_update) and the payoff  *)
(* sweep it defers by a timer (PlotWidget.plot_payoff)                     *)
(***************************************************************************)
\* how many times Calculate is clicked
MaxClicks == 2

\* np.linspace(..., 100)
NSamples == 100

\* an input field left empty
Empty == [tag |-> "empty", m |-> 0, e |-> 0]

\* safe_float: an empty text raises ValueError
SafeFloatFails(text) == text = Empty

\* what the user may have entered when clicking Calculate
Forms ==
    { [S |-> S, K |-> Level(k), T |-> Num(Scale), r |-> Num(500), sigma |-> sigma,
       barrier |-> IF k = 1 THEN Level(3) ELSE Level(0),
       storage_cost |-> Num(200), convenience_yield |-> Num(100),
       financing_rate |-> Num(100), holding_period |-> Num(30 * Scale),
       option_type |-> IF k = 1 THEN "call" ELSE "put",
       barrier_type |-> IF k = 1 THEN "up-and-out" ELSE "down-and-in",
       cfd_position |-> IF k = 1 THEN "long" ELSE "short"] :
         S \in {Empty, Level(1), Level(2)}, k \in {1, 2}, sigma \in {Num(0), Num(2000)} }

\* np.linspace(start, stop, num, endpoint=False)[i - 1]
LinspaceOpen(start, stop, num, i) == start + ((i - 1) * (stop - start)) \div num

\* np.linspace(start, stop, num)[i - 1], i in 1..num
Linspace(start, stop, num, i) ==
    IF i = num THEN stop ELSE start + ((i - 1) * (stop - start)) \div (num - 1)

\* pricer.K * 0.5 and pricer.K * 1.5
HalfOf(K) == FxMul(K, Scale \div 2)
OneAndHalfOf(K) == FxMul(K, Scale + Scale \div 2)

\* line 43: the sample stored into the pricer the sweep was handed
WithSpot(pricer, S) == [pricer EXCEPT !.S = Num(S)]

\* lines 38-44: the (stock price, option price) pairs of one sweep
Sweep(pricer, option_type, barrier_type, barrier) ==
    [i \in 1..NSamples |->
        The({ <<S, price_barrier_option(WithSpot(pricer, S), option_type,
                                        barrier_type, barrier)>> :
                S \in {Linspace(HalfOf(pricer.K.m), OneAndHalfOf(pricer.K.m),
                                NSamples, i)} })]

\* the four results handed to the panel whether or not a call raised
NoFailure(price, greeks, futures, cfd) ==
    [failed |-> Return(None),
     shown |-> <<price.val, greeks.val, futures.val, cfd.val>>]

\* the results the panel is handed, or the first exception among them
FirstFailure(price, greeks, futures, cfd) ==
    IF price.kind = "raise" THEN [failed |-> price, shown |-> << >>]
    ELSE IF greeks.kind = "raise" THEN [failed |-> greeks, shown |-> << >>]
    ELSE IF futures.kind = "raise" THEN [failed |-> futures, shown |-> << >>]
    ELSE IF cfd.kind = "raise" THEN [failed |-> cfd, shown |-> << >>]
    ELSE [failed |-> Return(None),
          shown |-> <<price.val, greeks.val, futures.val, cfd.val>>]

\* lines 78-82: the four calls on the pricer of the request
Compute(f) ==
    The({ FirstFailure(
            price_barrier_option(pricer, f.option_type, f.barrier_type, f.barrier),
            calculate_greeks(pricer, f.option_type, f.barrier_type, f.barrier).out,
            price_futures(SelfAfterGreeks(pricer), f.storage_cost,
                          f.convenience_yield),
            price_cfd(SelfAfterGreeks(pricer), f.cfd_position, f.financing_rate,
                      f.holding_period)) :
          pricer \in {Engine(f.S, f.K, f.T, f.r, f.sigma)} })

\* lines 90-97: the message box an exception ends in
DialogFor(exc) == IF exc = "ValueError" THEN "warning" ELSE "critical"

WindowInit ==
    /\ WindowIdle
    /\ eng = Engine(None, None, None, None, None)
    /\ eng0 = eng
    /\ call = NoCall
    /\ out = Return(None)
    /\ built = << >>
    /\ priced = << >>
    /\ req = NoRequest
    /\ book = NoBook

\* one click on Calculate
CalculateAndUpdate ==
    /\ clicks < MaxClicks
    /\ clicks' = clicks + 1
    /\ \E f \in Forms :
        IF \E text \in {f.S, f.K, f.T, f.r, f.sigma, f.barrier, f.storage_cost,
                        f.convenience_yield, f.financing_rate, f.holding_period} :
                SafeFloatFails(text)
        THEN /\ dialog' = "warning"
             /\ UNCHANGED <<requests, pricers, timers, panel, curve, curveOf>>
        ELSE \E c \in {Compute(f)} :
                IF c.failed.kind = "raise"
                THEN /\ dialog' = DialogFor(c.failed.exc)
                     /\ UNCHANGED <<requests, pricers, timers, panel, curve, curveOf>>
                ELSE /\ panel' = c.shown
                     /\ requests' = Append(requests, f)
                     /\ pricers' = Append(pricers,
                            SelfAfterGreeks(Engine(f.S, f.K, f.T, f.r, f.sigma)))
                     /\ timers' = timers \cup {Len(requests) + 1}
                     /\ UNCHANGED <<dialog, curve, curveOf>>
    /\ UNCHANGED <<engineVars, quoteVars>>

\* a timer fires: plot_payoff on the pricer and the arguments of its request
PlotPayoff ==
    /\ \E n \in timers :
        \E c \in {Sweep(pricers[n], requests[n].option_type,
                        requests[n].barrier_type, requests[n].barrier)} :
            /\ curve' = [i \in 1..NSamples |->
                            The({ <<p[1], p[2].val>> : p \in {c[i]} })]
            /\ curveOf' = n
            /\ pricers' = [pricers EXCEPT ![n] =
                            WithSpot(@, Linspace(HalfOf(@.K.m), OneAndHalfOf(@.K.m),
                                                 NSamples, NSamples))]
            /\ timers' = timers \ {n}
            /\ UNCHANGED <<requests, panel, dialog, clicks>>
    /\ UNCHANGED <<engineVars, quoteVars>>

WindowNext == CalculateAndUpdate \/ PlotPayoff

WindowSpec == WindowInit /\ [][WindowNext]_vars

(***************************************************************************)
(* Properties of the quotes                                                *)
(***************************************************************************)
\* the Black-Scholes price of the option type
Vanilla(self, barrier, option_type) ==
    IF option_type = "call" THEN VanillaCall(self, Derived(self, barrier))
    ELSE VanillaPut(self, Derived(self, barrier))

\* a < b on floats
Lt(a, b) == Le(a, b) /\ a # b

\* the spot is strictly on the side of the barrier where nothing has knocked
NotKnocked(side) ==
    IF side = "down" THEN Lt(req.barrier, eng.S) ELSE Lt(eng.S, req.barrier)

In(side) == IF side = "down" THEN "down-and-in" ELSE "up-and-in"
Out(side) == IF side = "down" THEN "down-and-out" ELSE "up-and-out"

\* what two prices of the grid may differ by and still count as equal: 0.5
Tol == Scale \div 2

\* C1: away from the barrier, the knock-in and the knock-out price of the
\* same option type and barrier side add up to the vanilla price
C1_InPlusOutIsVanilla ==
    \A side \in {"down", "up"} :
        ( /\ book[In(side)].kind = "return"
          /\ book[Out(side)].kind = "return"
          /\ NotKnocked(side) )
        => Abs(book[In(side)].val.m + book[Out(side)].val.m
                - Vanilla(eng, req.barrier, req.option_type)) <= Tol

\* section 4.1 of the specification, row by row: the knock condition
TableKnocked(S, barrier_type, H) ==
    IF barrier_type \in {"down-and-out", "down-and-in"} THEN Le(S, H) ELSE Ge(S, H)

\* the degenerate value of a knocked row
TableDegenerate(self, option_type, barrier_type, H) ==
    IF barrier_type \in {"down-and-out", "up-and-out"} THEN 0
    ELSE Vanilla(self, H, option_type)

\* the active-region formula of a row
TableActive(self, option_type, barrier_type, H) ==
    LET q  == Derived(self, H)
        A  == Reflect(self, H, q)
        x1 == q.x1
        y  == q.y
        N(x) == FxCdf(x)
        vanillaCall == VanillaCall(self, q)
        vanillaPut == VanillaPut(self, q)
    IN  CASE option_type = "call" /\ barrier_type = "down-and-out" ->
                vanillaCall - FxMul(A, N(-x1) - N(-y))
          [] option_type = "call" /\ barrier_type = "up-and-out" ->
                vanillaCall - FxMul(A, N(y) - N(x1))
          [] option_type = "call" /\ barrier_type = "down-and-in" -> FxMul(A, N(-x1))
          [] option_type = "call" /\ barrier_type = "up-and-in" -> FxMul(A, N(y))
          [] option_type = "put" /\ barrier_type = "down-and-out" ->
                vanillaPut + FxMul(A, N(-y) - N(-x1))
          [] option_type = "put" /\ barrier_type = "up-and-out" ->
                vanillaPut + FxMul(A, N(x1) - N(y))
          [] option_type = "put" /\ barrier_type = "down-and-in" -> FxMul(A, N(-y))
          [] option_type = "put" /\ barrier_type = "up-and-in" -> FxMul(A, N(x1))

TableRow(self, option_type, barrier_type, H) ==
    IF TableKnocked(self.S, barrier_type, H)
    THEN TableDegenerate(self, option_type, barrier_type, H)
    ELSE TableActive(self, option_type, barrier_type, H)

\* C5: every quote is the value of its row of the table: the degenerate
\* value exactly when S <= H (down) or S >= H (up), the active formula
\* otherwise, and never anything but a returned number
C5_BranchTable ==
    \A bt \in BarrierTypes :
        book[bt] # Pending
        => book[bt] = Return(Num(TableRow(eng, req.option_type, bt, req.barrier)))

\* the spot sits on the barrier and all four barrier types were quoted:
\* both knock-outs are 0, both knock-ins the vanilla price
C5_Witness ==
    /\ eng.S = req.barrier
    /\ \A bt \in BarrierTypes : book[bt] # Pending
    /\ book["down-and-out"].val.m = 0 /\ book["up-and-out"].val.m = 0
    /\ book["down-and-in"].val.m = Vanilla(eng, req.barrier, req.option_type)
    /\ book["up-and-in"].val.m > 0

\* C6: away from the barrier a knock-out price lies between 0 and the
\* vanilla price of the same option type
C6_KnockOutWithinVanilla ==
    \A side \in {"down", "up"} :
        (book[Out(side)].kind = "return" /\ NotKnocked(side))
        => /\ book[Out(side)].val.m >= -Tol
           /\ book[Out(side)].val.m <= Vanilla(eng, req.barrier, req.option_type) + Tol

\* C7: the long and the short CFD result add up to minus twice the
\* financing cost S * financing_rate * holding_period / 365
C7_LongPlusShort ==
    (book["long"].kind = "return" /\ book["short"].kind = "return")
    => book["long"].val.m + book["short"].val.m
        = -2 * ((FxMul(FxMul(eng.S.m, req.financing_rate.m), req.holding_period.m))
                    \div 365)

\* both positions quoted, with a price move and a financing cost that
\* are not zero
C7_Witness ==
    /\ book["long"].kind = "return" /\ book["short"].kind = "return"
    /\ book["long"].val.m + book["short"].val.m < 0
    /\ book["long"].val.m - book["short"].val.m > 0

(***************************************************************************)
(* Properties of the engine under arbitrary calls                          *)
(***************************************************************************)
Barriered == call.op \in {"price_barrier_option", "calculate_greeks"}

\* the five engine parameters and the barrier of the last call
NumericParams == {eng.S, eng.K, eng.T, eng.r, eng.sigma, call.barrier}

\* C2: with a recognised option type, a barrier type outside the four
\* makes price_barrier_option fail with InvalidArgument, whatever else
\* holds of inputs the arithmetic accepts
C2_UnknownBarrierTypeRaises ==
    ( /\ call.op = "price_barrier_option"
      /\ call.option_type \in OptionTypes
      /\ call.barrier_type \notin BarrierTypes
      /\ Computable(eng, call.barrier) )
    => out = Raise("ValueError", "InvalidArgument")

\* C3 as stated: with every numeric parameter present, an unknown option
\* type makes both methods fail with InvalidArgument, for every barrier
\* type and level, and calculate_greeks builds no engine before failing
C3_UnknownOptionTypeRaises ==
    ( /\ Barriered
      /\ call.option_type \notin OptionTypes
      /\ \A v \in NumericParams : ~IsNone(v) )
    => (out = Raise("ValueError", "InvalidArgument") /\ built = << >>)

\* C3 amended: the same, for S, K, sigma and barrier that are not zero
C3_UnknownOptionTypeRaisesNonzero ==
    ( /\ Barriered
      /\ call.option_type \notin OptionTypes
      /\ \A v \in NumericParams : ~IsNone(v)
      /\ \A v \in {eng.S, eng.K, eng.sigma, call.barrier} : ~IsZero(v) )
    => (out = Raise("ValueError", "InvalidArgument") /\ built = << >>)

\* calculate_greeks was called with "straddle" on present, nonzero
\* parameters and failed
C3_Witness ==
    /\ call.op = "calculate_greeks"
    /\ call.option_type = "straddle"
    /\ call.barrier_type \in BarrierTypes
    /\ Computable(eng, call.barrier)
    /\ out.kind = "raise"

C8_Futures ==
    call.op = "price_futures"
    => /\ out.kind = "raise" <=> \E v \in {eng.S, eng.T, eng.r} : IsNone(v)
       /\ out.kind = "raise" => out = Raise("ValueError", "MissingParameter")
       /\ (out.kind = "return" /\ call.storage_cost = Unset
                /\ call.convenience_yield = Unset)
          => /\ out = price_futures(eng, Num(0), Num(0))
             /\ (IsNum(eng.S)
                    => out.val = Num(FxMul(eng.S.m, FxExp(FxMul(eng.r.m, eng.T.m)))))

\* price_futures was called without carry arguments on an engine that has
\* neither K nor sigma, and returned a price
C8_Witness ==
    /\ call.op = "price_futures"
    /\ call.storage_cost = Unset /\ call.convenience_yield = Unset
    /\ IsNone(eng.K) /\ IsNone(eng.sigma)
    /\ out.kind = "return" /\ IsNum(out.val) /\ out.val.m > eng.S.m

\* what the last call gives on an engine holding the parameters eng0
OnConstructed ==
    CASE call.op = "price_barrier_option" ->
            price_barrier_option(eng0, call.option_type, call.barrier_type,
                                 call.barrier)
      [] call.op = "calculate_greeks" ->
            calculate_greeks(eng0, call.option_type, call.barrier_type,
                             call.barrier).out
      [] call.op = "price_futures" ->
            price_futures(eng0, call.storage_cost, call.convenience_yield)
      [] call.op = "price_cfd" ->
            price_cfd(eng0, call.position, call.financing_rate,
                      call.holding_period)
      [] OTHER -> out

\* C9: whatever calls were made, failed ones included, the engine holds
\* the parameters it was constructed with, so the last call returned what
\* it returns on the engine as constructed
C9_ParametersUntouched == eng = eng0 /\ out = OnConstructed

\* calculate_greeks ran to the end: it built its five engines and
\* returned the dict
C9_Witness ==
    /\ call.op = "calculate_greeks"
    /\ out.kind = "return"
    /\ Len(built) = 5
    /\ built[1].S # eng.S

(***************************************************************************)
(* Properties of the window                                                *)
(***************************************************************************)
\* the price of the request f with its spot replaced by S
PriceAt(f, S) ==
    price_barrier_option(Engine(Num(S), f.K, f.T, f.r, f.sigma), f.option_type,
                         f.barrier_type, f.barrier).val

\* C10: the curve drawn for a request is 100 pairs; the spots rise in
\* equal steps (to one unit of the grid) from 0.5*K to 1.5*K; each price
\* is price_barrier_option at that spot with everything else as entered
C10_PayoffCurve ==
    curveOf # 0 =>
        \A f \in {requests[curveOf]} :
            /\ Len(curve) = 100
            /\ curve[1][1] = f.K.m \div 2
            /\ curve[100][1] = f.K.m + f.K.m \div 2
            /\ \A i \in 1..99 :
                /\ curve[i][1] < curve[i + 1][1]
                /\ Abs((curve[i + 1][1] - curve[i][1]) - f.K.m \div 99) <= 1
            /\ \A i \in 1..100 : curve[i][2] = PriceAt(f, curve[i][1])

\* two requests with different strikes and barrier types went through and
\* the curve on the canvas is the second one's, with prices that differ
C10_Witness ==
    /\ Len(requests) = 2
    /\ requests[1].K # requests[2].K
    /\ curveOf = 2
    /\ curve[1][2] # curve[100][2]
(***************************************************************************)
(* Properties of calculate_greeks                                          *)
(***************************************************************************)
GreekNames == {"Delta", "Gamma", "Vega", "Theta", "Rho"}

\* what price_barrier_option gives on the engine and arguments of the last call
PricingOfCall ==
    price_barrier_option(eng, call.option_type, call.barrier_type, call.barrier)

\* C11: calculate_greeks fails only when price_barrier_option fails on the
\* same engine and arguments, then with the same error, and returns the
\* five Greeks whenever price_barrier_option returns
C11_GreeksFailsAsPricing ==
    call.op = "calculate_greeks"
    => \A p \in {PricingOfCall} :
        /\ out.kind = "raise" => p = out
        /\ p.kind = "return" => (out.kind = "return" /\ DOMAIN out.val = GreekNames)
\* the price of the last call's option on the engine e
PricingOn(e) ==
    price_barrier_option(e, call.option_type, call.barrier_type, call.barrier)

Fields == {"S", "K", "T", "r", "sigma"}

\* the fields in which the engine e differs from eng
Differing(e) == {f \in Fields : e[f] # eng[f]}

\* a calculate_greeks that returned: six pricings, the base first, then
\* S+eps, S-eps, sigma+eps, a changed maturity, r+eps, every perturbed one
\* on an engine built for it; Delta and Gamma made of the same two prices
SixPricingsInOrder ==
    /\ Len(priced) = 6
    /\ priced[1] = eng
    /\ \A i \in 1..5 : priced[i + 1] = built[i]
    /\ priced[2] = [eng EXCEPT !.S = Shift(@, EpsUnits)]
    /\ priced[3] = [eng EXCEPT !.S = Shift(@, -EpsUnits)]
    /\ priced[4] = [eng EXCEPT !.sigma = Shift(@, EpsUnits)]
    /\ Differing(priced[5]) \subseteq {"T"}
    /\ priced[6] = [eng EXCEPT !.r = Shift(@, EpsUnits)]
    /\ (out.val.Delta.tag = "num" /\ out.val.Gamma.tag = "num")
        => /\ out.val.Delta.plus = <<PricingOn(priced[2])>>
           /\ out.val.Delta.minus = <<PricingOn(priced[1])>>
           /\ out.val.Delta.den = "eps"
           /\ out.val.Gamma.plus = <<out.val.Delta.plus[1], PricingOn(priced[3])>>
           /\ out.val.Gamma.minus = <<out.val.Delta.minus[1], out.val.Delta.minus[1]>>
           /\ out.val.Gamma.den = "eps**2"

GreeksReturned == call.op = "calculate_greeks" /\ out.kind = "return"

\* C12 as stated: calculate_greeks prices six times in the order base,
\* S+eps, S-eps, sigma+eps, T_down, r+eps, each perturbed engine differing
\* from the base in exactly one field, and Gamma reuses the prices of Delta
C12_SixPricingsOneFieldEach ==
    (GreeksReturned /\ IsNum(eng.T))
    => /\ SixPricingsInOrder
       /\ \A i \in 2..6 : Cardinality(Differing(priced[i])) = 1

\* C12 amended: the same, each perturbed engine differing from the base in
\* no field but its own (the maturity engine in none when T_down = T)
C12_SixPricingsInOrder == GreeksReturned => SixPricingsInOrder

\* calculate_greeks returned numbers for Delta and Gamma on an engine whose
\* maturity the Theta step changed
C12_Witness ==
    /\ GreeksReturned
    /\ out.val.Delta.tag = "num" /\ out.val.Gamma.tag = "num"
    /\ Len(priced) = 6
    /\ priced[5].T # eng.T
    /\ priced[2] # priced[3]
\* the Theta step was reached: the fourth perturbed engine was built
ThetaRepriced == call.op = "calculate_greeks" /\ Len(built) >= 4

\* T - eps/365 floored at eps, and the Theta made of the price there
FlooredMaturity ==
    /\ built[4].T = (IF Le(Shift(eng.T, -1), Eps) THEN Eps ELSE Shift(eng.T, -1))
    /\ out.kind = "return"
        => out.val.Theta = Quotient(<<PricingOn(built[4])>>, <<PricingOn(eng)>>,
                                    "eps/365")

C13_WitnessUnfloored ==
    /\ ThetaRepriced
    /\ eng.T = Tiny(EpsUnits + 2)
    /\ built[4].T = Tiny(EpsUnits + 1)
(***************************************************************************)
(* Properties of one Calculate request                                     *)
(***************************************************************************)
\* the pricer a request constructs, with the spot as entered
FreshPricer(f) == Engine(f.S, f.K, f.T, f.r, f.sigma)

\* the four calls of a request on its fresh pricer
CallsOf(f) ==
    << price_barrier_option(FreshPricer(f), f.option_type, f.barrier_type, f.barrier),
       calculate_greeks(FreshPricer(f), f.option_type, f.barrier_type, f.barrier).out,
       price_futures(FreshPricer(f), f.storage_cost, f.convenience_yield),
       price_cfd(FreshPricer(f), f.cfd_position, f.financing_rate, f.holding_period) >>

\* C14: whatever clicks and sweeps have run, in whatever order: a request
\* went through (panel updated, sweep scheduled) only if no input was empty
\* and none of its four calls raised; the panel shows the four results of
\* the last such request on its fresh pricer, sweeps notwithstanding; and
\* each request's pricer has the entered spot until its own sweep has run
\* and the last sample 1.5*K after, whatever other sweeps did
C14_RequestOrdering ==
    /\ Len(requests) <= clicks
    /\ Len(pricers) = Len(requests)
    /\ timers \subseteq 1..Len(requests)
    /\ \A n \in 1..Len(requests) :
        \A f \in {requests[n]}, cs \in {CallsOf(requests[n])} :
            /\ f.S # Empty
            /\ \A i \in 1..4 : cs[i].kind = "return"
            /\ n = Len(requests) => panel = [i \in 1..4 |-> cs[i].val]
            /\ pricers[n] =
                    [FreshPricer(f) EXCEPT
                        !.S = IF n \in timers THEN f.S ELSE Num(OneAndHalfOf(f.K.m))]
    /\ requests = << >> => (panel = << >> /\ curveOf = 0)

\* two different requests went through; the sweep of the first has run and
\* moved its pricer's spot, the sweep of the second is still pending and
\* the panel shows the second's results
C14_Witness ==
    /\ Len(requests) = 2
    /\ requests[1] # requests[2]
    /\ timers = {2}
    /\ curveOf = 1
    /\ pricers[1].S # requests[1].S
    /\ pricers[2].S = requests[2].S
    /\ panel # << >>
====
